---- MODULE Spec2Model ----
(***************************************************************************)
(* Model of parkour-tauri/src-tauri/src/lib.rs: the background watch loop  *)
(* started by start_watcher, the filesystem and notification source it     *)
(* depends on, and the five on-demand commands that run beside it.         *)
(*                                                                         *)
(* Time is counted in whole seconds.  An Instant is kept as its age (the   *)
(* value .elapsed() would return), capped at MaxAge, because the code only *)
(* ever compares an age against a Duration.                                *)
(***************************************************************************)
EXTENDS Integers, Sequences, FiniteSets, TLC

VARIABLES
    homeOk,        \* whether the APPDATA / home-directory lookup succeeds
    home,          \* the directory that lookup returns, as path text
    fs,            \* the filesystem: what is found at each path
    pc,            \* position of the watcher thread
    sleep,         \* seconds left of the retry sleep of the search loop
    path,          \* the path the search loop broke out with
    last_hash,     \* start_watcher's last_hash
    last_emit,     \* age in seconds of start_watcher's last_emit
    waited,        \* seconds the current recv_timeout call has waited
    rx,            \* messages queued in the notification channel
    connected,     \* whether the sending half of the channel is alive
    emitted,       \* the notifications the latest step handed to app.emit
    reply,         \* the value the latest step returned to a command caller
    located,       \* history: the loop has emitted its log-location
    delivered,     \* history: <<text>> of the loop's latest log-update
    delivery_age,  \* history: age in seconds of that log-update
    step           \* history: what the watcher thread did in the latest step

vars == <<homeOk, home, fs, pc, sleep, path, last_hash, last_emit, waited, rx,
          connected, emitted, reply, located, delivered, delivery_age, step>>

\* the variables of the watch session and of the thread that owns it
session == <<pc, sleep, path, last_hash, last_emit, waited>>

\* the history variables that record what the loop has emitted
history == <<located, delivered, delivery_age>>

-----------------------------------------------------------------------------
(* Bounds of the model *)

\* capacity given to the (unbounded) mpsc channel
MaxQueue == 1

\* ages are exact below MaxAge and mean "MaxAge or more" at MaxAge
MaxAge == 3

\* number of values the 64-bit fingerprint is folded into
FingerprintSpace == 16

-----------------------------------------------------------------------------
(* Constants of the program *)

Debounce == 2

RetrySleep == 5

RecvTimeout == 3

HashThreshold == 1024

HashWindow == 512

NotFoundMsg == "Minecraft log file not found"

WatcherErrorMsg == "Watcher error"

WatchErrorMsg == "Watch error"

CommandNotFoundMsg == "Could not find Minecraft log file"

ReadFailedMsg == "Failed to read log"

FileNotFoundMsg == "File not found"

\* the two candidate locations of one platform, primary client first
PrimaryPath == "minecraft/logs/latest.log"

AlternatePath == "lunarclient/offline/multiver/logs/latest.log"

Paths == {PrimaryPath, AlternatePath}

NoPath == "none"

-----------------------------------------------------------------------------
(* Path text.  A path is the sequence of its tokens: the separator, or a  *)
(* name.  The files of the model are the two candidates; PrimaryPath and   *)
(* AlternatePath name them, relative(p) is the literal joined to home.     *)

Sep == "/"

relative(p) ==
    IF p = PrimaryPath
    THEN <<".minecraft", Sep, "logs", Sep, "latest.log">>
    ELSE <<".lunarclient", Sep, "offline", Sep, "multiver", Sep, "logs", Sep,
           "latest.log">>

\* the home directory of an ordinary run
UsualHome == <<Sep, "home", Sep, "steve">>

\* home directories: plain, with a trailing separator, and the root
Homes == {UsualHome, UsualHome \o <<Sep>>, <<Sep>>}

\* PathBuf::join of a relative path: a separator is pushed only when the
\* base is not empty and does not already end with one
join(base, rel) ==
    IF base = <<>> \/ base[Len(base)] = Sep THEN base \o rel
    ELSE base \o <<Sep>> \o rel

\* format!("{}/<literal>", h)
format_path(h, rel) == h \o <<Sep>> \o rel

\* Path::components, by which Path compares and the filesystem resolves:
\* whether the path starts at the root, and its names; repeated and
\* trailing separators do not count
components(s) ==
    [root |-> s # <<>> /\ s[1] = Sep,
     names |-> SelectSeq(s, LAMBDA t : t # Sep)]

\* the file a path text resolves to: the candidate whose names, under the
\* names of home, are the names of the text
file_at(s) ==
    LET names_of(p) == components(home).names \o components(relative(p)).names
        hits == {p \in Paths : /\ components(s).root
                               /\ components(s).names = names_of(p)}
    IN  IF hits = {} THEN NoPath ELSE CHOOSE p \in hits : TRUE

-----------------------------------------------------------------------------
(* The filesystem *)

\* file contents, as byte sequences
Texts == {<<>>, <<1, 2>>, <<2, 1>>}

Absent == [k |-> "absent"]

Unreadable == [k |-> "unreadable"]

TextFile(t) == [k |-> "text", text |-> t]

Files == {Absent, Unreadable} \cup {TextFile(t) : t \in Texts}

\* Path::exists
exists(p) == fs[p].k # "absent"

\* fs::read_to_string as an Option: <<>> is Err, <<text>> is Ok(text)
read_to_string(p) == IF fs[p].k = "text" THEN <<fs[p].text>> ELSE <<>>

-----------------------------------------------------------------------------
(* get_log_path and hash_content *)

\* the candidates vector of get_log_path, as PathBuf text
candidate_paths ==
    IF homeOk
    THEN <<join(home, relative(PrimaryPath)),
           join(home, relative(AlternatePath))>>
    ELSE <<>>

\* the files the candidates name, in the order of the vector
candidates == IF homeOk THEN <<PrimaryPath, AlternatePath>> ELSE <<>>

\* the vector get_default_paths builds, as String text
default_paths ==
    IF homeOk
    THEN <<format_path(home, relative(PrimaryPath)),
           format_path(home, relative(AlternatePath))>>
    ELSE <<>>

\* variant of get_log_path: only the first candidate is tried
get_log_path_first_only ==
    IF candidates # <<>> /\ exists(candidates[1]) THEN <<candidates[1]>>
    ELSE <<>>

\* variant of get_log_path: the alternate launcher is tried first
get_log_path_alternate_first ==
    IF candidates = <<>> THEN <<>>
    ELSE IF exists(candidates[2]) THEN <<candidates[2]>>
    ELSE IF exists(candidates[1]) THEN <<candidates[1]>>
    ELSE <<>>

\* Option<PathBuf>: <<>> is None, <<p>> is Some(p)
get_log_path ==
    LET found == {i \in DOMAIN candidates : exists(candidates[i])}
    IN  IF found = {} THEN <<>>
        ELSE <<candidates[CHOOSE i \in found : \A j \in found : i <= j]>>

RECURSIVE SumRange(_, _, _)
SumRange(f, lo, hi) ==
    IF lo > hi THEN 0
    ELSE IF lo = hi THEN f[lo]
    ELSE LET mid == (lo + hi) \div 2
         IN  SumRange(f, lo, mid) + SumRange(f, mid + 1, hi)

\* DefaultHasher::finish over the words written to the hasher.  SipHash is
\* replaced by a sum folded into FingerprintSpace values: a deterministic
\* function of exactly the words written, with collisions, that can be 0.
finish(written) == SumRange(written, 1, Len(written)) % FingerprintSpace

\* [u8]::hash writes the length of the slice, then its bytes
hash_slice(bytes) == <<Len(bytes)>> \o bytes

\* variant of written: the windows are used from the threshold on
written_from_threshold(s) ==
    LET n == Len(s)
    IN  <<n>> \o
        (IF n >= HashThreshold
         THEN hash_slice(SubSeq(s, 1, HashWindow))
              \o hash_slice(SubSeq(s, n - HashWindow + 1, n))
         ELSE hash_slice(s))

\* the words hash_content writes to the hasher: the length, then the two
\* windows of a content above the threshold, or the whole content
written(s) ==
    LET n == Len(s)
    IN  <<n>> \o
        (IF n > HashThreshold
         THEN hash_slice(SubSeq(s, 1, HashWindow))
              \o hash_slice(SubSeq(s, n - HashWindow + 1, n))
         ELSE hash_slice(s))

hash_content(s) == finish(written(s))

-----------------------------------------------------------------------------
(* Notifications and replies *)

LogError(msg, by) == [event |-> "log-error", msg |-> msg, by |-> by]

LogLocation(p, by) == [event |-> "log-location", path |-> p, by |-> by]

LogUpdate(t, by) == [event |-> "log-update", text |-> t, by |-> by]

NoReply == [cmd |-> "none"]

Age(a) == IF a < MaxAge THEN a + 1 ELSE MaxAge

-----------------------------------------------------------------------------
Init ==
    /\ homeOk \in BOOLEAN
    /\ home = UsualHome
    /\ fs \in [Paths -> Files]
    /\ pc = "search"
    /\ sleep = 0
    /\ path = NoPath
    /\ last_hash = 0
    /\ last_emit = 0
    /\ waited = 0
    /\ rx = <<>>
    /\ connected = TRUE
    /\ emitted = <<>>
    /\ reply = NoReply
    /\ located = FALSE
    /\ delivered = <<>>
    /\ delivery_age = 0
    /\ step = "none"

-----------------------------------------------------------------------------
(* The environment *)

\* one second passes
Tick ==
    /\ sleep' = IF sleep > 0 THEN sleep - 1 ELSE 0
    /\ last_emit' = IF pc = "recv" THEN Age(last_emit) ELSE last_emit
    /\ waited' = IF pc = "recv" /\ rx = <<>> /\ waited < RecvTimeout
                 THEN waited + 1 ELSE waited
    /\ delivery_age' = IF delivered # <<>> THEN Age(delivery_age)
                       ELSE delivery_age
    /\ emitted' = <<>>
    /\ reply' = NoReply
    /\ step' = "none"
    /\ UNCHANGED <<homeOk, home, fs, pc, path, last_hash, rx, connected,
                   located, delivered>>

\* the game or the user creates, rewrites, removes or locks a file
FileChange ==
    \E p \in Paths, f \in Files :
        /\ f # fs[p]
        /\ fs' = [fs EXCEPT ![p] = f]
        /\ emitted' = <<>>
        /\ reply' = NoReply
        /\ step' = "none"
        /\ UNCHANGED <<homeOk, home, session, rx, connected, history>>

\* the notification source sends a message: an event one of whose paths is
\* named latest.log ("log"), an event with no such path ("other"), or an
\* error ("error").  Signals may be spurious, so none is tied to a change.
Signal ==
    \E m \in {"log", "other", "error"} :
        /\ pc = "recv"
        /\ connected
        /\ Len(rx) < MaxQueue
        /\ rx' = Append(rx, m)
        /\ emitted' = <<>>
        /\ reply' = NoReply
        /\ step' = "none"
        /\ UNCHANGED <<homeOk, home, fs, session, connected, history>>

\* the sending half of the channel is dropped
Disconnect ==
    /\ pc = "recv"
    /\ connected
    /\ connected' = FALSE
    /\ emitted' = <<>>
    /\ reply' = NoReply
    /\ step' = "none"
    /\ UNCHANGED <<homeOk, home, fs, session, rx, history>>

-----------------------------------------------------------------------------
(* start_watcher: the watcher thread *)

\* the search loop finds nothing: emit log-error, sleep 5 seconds
SearchRetry ==
    /\ pc = "search"
    /\ sleep = 0
    /\ get_log_path = <<>>
    /\ emitted' = <<LogError(NotFoundMsg, "loop")>>
    /\ sleep' = RetrySleep
    /\ step' = "retry"
    /\ reply' = NoReply
    /\ UNCHANGED <<homeOk, home, fs, pc, path, last_hash, last_emit, waited, rx,
                   connected, history>>

\* variant of SearchFound: the log-location notification is forgotten
SearchFound_silent ==
    /\ pc = "search"
    /\ sleep = 0
    /\ get_log_path # <<>>
    /\ path' = get_log_path[1]
    /\ emitted' = <<>>
    /\ located' = TRUE
    /\ pc' = "read"
    /\ step' = "found"
    /\ reply' = NoReply
    /\ UNCHANGED <<homeOk, home, fs, sleep, last_hash, last_emit, waited, rx,
                   connected, delivered, delivery_age>>

\* the search loop breaks with a path; log-location is emitted
SearchFound ==
    /\ pc = "search"
    /\ sleep = 0
    /\ get_log_path # <<>>
    /\ path' = get_log_path[1]
    /\ emitted' = <<LogLocation(get_log_path[1], "loop")>>
    /\ located' = TRUE
    /\ pc' = "read"
    /\ step' = "found"
    /\ reply' = NoReply
    /\ UNCHANGED <<homeOk, home, fs, sleep, last_hash, last_emit, waited, rx,
                   connected, delivered, delivery_age>>

\* variant of InitialRead: the first content goes through the comparison
\* with last_hash like every later one
InitialRead_compared ==
    /\ pc = "read"
    /\ LET content == read_to_string(path)
       IN  IF content # <<>> /\ hash_content(content[1]) # last_hash
           THEN /\ last_hash' = hash_content(content[1])
                /\ emitted' = <<LogUpdate(content[1], "loop")>>
                /\ delivered' = content
                /\ delivery_age' = 0
           ELSE /\ emitted' = <<>>
                /\ UNCHANGED <<last_hash, delivered, delivery_age>>
    /\ pc' = "arm"
    /\ step' = IF read_to_string(path) # <<>> THEN "initial update"
                ELSE "initial read failed"
    /\ reply' = NoReply
    /\ UNCHANGED <<homeOk, home, fs, sleep, path, last_emit, waited, rx, connected,
                   located>>

\* the initial read
InitialRead ==
    /\ pc = "read"
    /\ LET content == read_to_string(path)
       IN  IF content # <<>>
           THEN /\ last_hash' = hash_content(content[1])
                /\ emitted' = <<LogUpdate(content[1], "loop")>>
                /\ delivered' = content
                /\ delivery_age' = 0
           ELSE /\ emitted' = <<>>
                /\ UNCHANGED <<last_hash, delivered, delivery_age>>
    /\ pc' = "arm"
    /\ step' = IF read_to_string(path) # <<>> THEN "initial update"
                ELSE "initial read failed"
    /\ reply' = NoReply
    /\ UNCHANGED <<homeOk, home, fs, sleep, path, last_emit, waited, rx, connected,
                   located>>

\* variant of ArmWatch: the return after the log-error is missing
ArmWatch_no_return ==
    \E outcome \in {"armed", "new failed", "watch failed"} :
        /\ pc = "arm"
        /\ pc' = "recv"
        /\ last_emit' = 0
        /\ emitted' = IF outcome = "armed" THEN <<>>
                      ELSE <<LogError(IF outcome = "new failed"
                                      THEN WatcherErrorMsg
                                      ELSE WatchErrorMsg, "loop")>>
        /\ step' = outcome
        /\ reply' = NoReply
        /\ UNCHANGED <<homeOk, home, fs, sleep, path, last_hash, waited, rx,
                       connected, history>>

\* RecommendedWatcher::new and watcher.watch, either of which may fail;
\* on success last_emit is initialised and the steady loop is entered
ArmWatch ==
    \E outcome \in {"armed", "new failed", "watch failed"} :
        /\ pc = "arm"
        /\ IF outcome = "armed"
           THEN /\ pc' = "recv"
                /\ last_emit' = 0
                /\ emitted' = <<>>
           ELSE /\ pc' = "failed"
                /\ emitted' = <<LogError(IF outcome = "new failed"
                                         THEN WatcherErrorMsg
                                         ELSE WatchErrorMsg, "loop")>>
                /\ UNCHANGED last_emit
        /\ step' = outcome
        /\ reply' = NoReply
        /\ UNCHANGED <<homeOk, home, fs, sleep, path, last_hash, waited, rx,
                       connected, history>>

\* variants of debounce_over: a window one second short, a strict comparison
debounce_short(age) == age >= Debounce - 1

debounce_strict(age) == age > Debounce

\* last_emit.elapsed() >= debounce
debounce_over(age) == age >= Debounce

\* variant of hash_changed: the comparison is dropped
hash_changed_always(new_hash, old_hash) == TRUE

\* new_hash != last_hash
\* variant of hash_changed: while nothing has been delivered every content
\* counts as changed
hash_changed_or_first(new_hash, old_hash) ==
    new_hash # old_hash \/ delivered = <<>>

hash_changed(new_hash, old_hash) == new_hash # old_hash

\* variant of watched_path: the resolver is asked again before every read
watched_path_resolved == IF get_log_path # <<>> THEN get_log_path[1] ELSE path

\* the path the steady loop reads: the one resolved before the loop
watched_path == path

\* variant of is_log: every filesystem event counts, whatever file it names
is_log_any_event(m) == m # "error"

\* some path of the event has the file name latest.log
is_log(m) == m = "log"

\* variant of RecvMessage: last_hash is stored as soon as the file is read,
\* before the debounce test decides whether the content is emitted
RecvMessage_store_on_read ==
    /\ pc = "recv"
    /\ rx # <<>>
    /\ rx' = Tail(rx)
    /\ waited' = 0
    /\ LET matching == is_log(Head(rx))
           content == read_to_string(watched_path)
       IN  IF /\ matching
              /\ content # <<>>
              /\ hash_changed(hash_content(content[1]), last_hash)
           THEN /\ last_hash' = hash_content(content[1])
                /\ IF debounce_over(last_emit)
                   THEN /\ last_emit' = 0
                        /\ emitted' = <<LogUpdate(content[1], "loop")>>
                        /\ delivered' = content
                        /\ delivery_age' = 0
                        /\ step' = IF delivered = <<>> THEN "first update"
                                   ELSE "next update"
                   ELSE /\ emitted' = <<>>
                        /\ step' = "swallowed"
                        /\ UNCHANGED <<last_emit, delivered, delivery_age>>
           ELSE /\ emitted' = <<>>
                /\ step' = IF ~matching THEN Head(rx) \o " signal"
                           ELSE IF content = <<>> THEN "read failed"
                           ELSE "unchanged"
                /\ UNCHANGED <<last_hash, last_emit, delivered, delivery_age>>
    /\ reply' = NoReply
    /\ UNCHANGED <<homeOk, home, fs, pc, sleep, path, connected, located>>

\* variant of RecvMessage: a read that fails restarts the debounce window
RecvMessage_failed_read_counts ==
    /\ pc = "recv"
    /\ rx # <<>>
    /\ rx' = Tail(rx)
    /\ waited' = 0
    /\ LET matching == is_log(Head(rx))
           content == read_to_string(watched_path)
       IN  IF /\ matching
              /\ debounce_over(last_emit)
              /\ content # <<>>
              /\ hash_changed(hash_content(content[1]), last_hash)
           THEN /\ last_hash' = hash_content(content[1])
                /\ last_emit' = 0
                /\ emitted' = <<LogUpdate(content[1], "loop")>>
                /\ delivered' = content
                /\ delivery_age' = 0
                /\ step' = IF delivered = <<>> THEN "first update"
                           ELSE "next update"
           ELSE /\ emitted' = <<>>
                /\ step' = IF ~matching THEN Head(rx) \o " signal"
                           ELSE IF ~debounce_over(last_emit) THEN "swallowed"
                           ELSE IF content = <<>> THEN "read failed"
                           ELSE "unchanged"
                /\ last_emit' = IF /\ matching
                                   /\ debounce_over(last_emit)
                                   /\ content = <<>>
                                THEN 0 ELSE last_emit
                /\ UNCHANGED <<last_hash, delivered, delivery_age>>
    /\ reply' = NoReply
    /\ UNCHANGED <<homeOk, home, fs, pc, sleep, path, connected, located>>

\* recv_timeout returns a message: Ok(Ok(event)) or Ok(Err(_))
RecvMessage ==
    /\ pc = "recv"
    /\ rx # <<>>
    /\ rx' = Tail(rx)
    /\ waited' = 0
    /\ LET matching == is_log(Head(rx))
           content == read_to_string(watched_path)
       IN  IF /\ matching
              /\ debounce_over(last_emit)
              /\ content # <<>>
              /\ hash_changed(hash_content(content[1]), last_hash)
           THEN /\ last_hash' = hash_content(content[1])
                /\ last_emit' = 0
                /\ emitted' = <<LogUpdate(content[1], "loop")>>
                /\ delivered' = content
                /\ delivery_age' = 0
                /\ step' = IF delivered = <<>> THEN "first update"
                           ELSE "next update"
           ELSE /\ emitted' = <<>>
                /\ step' = IF ~matching THEN Head(rx) \o " signal"
                           ELSE IF ~debounce_over(last_emit) THEN "swallowed"
                           ELSE IF content = <<>> THEN "read failed"
                           ELSE "unchanged"
                /\ UNCHANGED <<last_hash, last_emit, delivered, delivery_age>>
    /\ reply' = NoReply
    /\ UNCHANGED <<homeOk, home, fs, pc, sleep, path, connected, located>>

\* variant of RecvTimedOut: the timeout is used to poll the file
RecvTimedOut_polls ==
    /\ pc = "recv"
    /\ rx = <<>>
    /\ connected
    /\ waited >= RecvTimeout
    /\ waited' = 0
    /\ LET content == read_to_string(watched_path)
       IN  IF /\ debounce_over(last_emit)
              /\ content # <<>>
              /\ hash_changed(hash_content(content[1]), last_hash)
           THEN /\ last_hash' = hash_content(content[1])
                /\ last_emit' = 0
                /\ emitted' = <<LogUpdate(content[1], "loop")>>
                /\ delivered' = content
                /\ delivery_age' = 0
           ELSE /\ emitted' = <<>>
                /\ UNCHANGED <<last_hash, last_emit, delivered, delivery_age>>
    /\ step' = "timeout"
    /\ reply' = NoReply
    /\ UNCHANGED <<homeOk, home, fs, pc, sleep, path, rx, connected, located>>

\* recv_timeout returns Err(Timeout): nothing to do
RecvTimedOut ==
    /\ pc = "recv"
    /\ rx = <<>>
    /\ connected
    /\ waited >= RecvTimeout
    /\ waited' = 0
    /\ emitted' = <<>>
    /\ step' = "timeout"
    /\ reply' = NoReply
    /\ UNCHANGED <<homeOk, home, fs, pc, sleep, path, last_hash, last_emit, rx,
                   connected, history>>

\* variant of RecvDisconnected: the closure is reported before the break
RecvDisconnected_reported ==
    /\ pc = "recv"
    /\ rx = <<>>
    /\ ~connected
    /\ pc' = "aborted"
    /\ emitted' = <<LogError(WatchErrorMsg, "loop")>>
    /\ step' = "disconnected"
    /\ reply' = NoReply
    /\ UNCHANGED <<homeOk, home, fs, sleep, path, last_hash, last_emit, waited, rx,
                   connected, history>>

\* recv_timeout returns Err(Disconnected): break
RecvDisconnected ==
    /\ pc = "recv"
    /\ rx = <<>>
    /\ ~connected
    /\ pc' = "aborted"
    /\ emitted' = <<>>
    /\ step' = "disconnected"
    /\ reply' = NoReply
    /\ UNCHANGED <<homeOk, home, fs, sleep, path, last_hash, last_emit, waited, rx,
                   connected, history>>

Watcher ==
    \/ SearchRetry
    \/ SearchFound
    \/ InitialRead
    \/ ArmWatch
    \/ RecvMessage
    \/ RecvTimedOut
    \/ RecvDisconnected

-----------------------------------------------------------------------------
(* The commands *)

get_log_content ==
    /\ reply' = IF get_log_path = <<>>
                THEN [cmd |-> "get_log_content", ok |-> FALSE,
                      err |-> CommandNotFoundMsg]
                ELSE IF read_to_string(get_log_path[1]) = <<>>
                THEN [cmd |-> "get_log_content", ok |-> FALSE,
                      err |-> ReadFailedMsg]
                ELSE [cmd |-> "get_log_content", ok |-> TRUE,
                      text |-> read_to_string(get_log_path[1])[1]]
    /\ emitted' = <<>>
    /\ step' = "none"
    /\ UNCHANGED <<homeOk, home, fs, session, rx, connected, history>>

get_log_location ==
    /\ reply' = IF get_log_path = <<>>
                THEN [cmd |-> "get_log_location", ok |-> FALSE,
                      err |-> CommandNotFoundMsg]
                ELSE [cmd |-> "get_log_location", ok |-> TRUE,
                      path |-> get_log_path[1]]
    /\ emitted' = <<>>
    /\ step' = "none"
    /\ UNCHANGED <<homeOk, home, fs, session, rx, connected, history>>

get_default_paths ==
    /\ reply' = [cmd |-> "get_default_paths", paths |-> default_paths]
    /\ emitted' = <<>>
    /\ step' = "none"
    /\ UNCHANGED <<homeOk, home, fs, session, rx, connected, history>>

validate_path ==
    \E p \in Paths :
        /\ reply' = [cmd |-> "validate_path", arg |-> p, ok |-> exists(p)]
        /\ emitted' = <<>>
        /\ step' = "none"
        /\ UNCHANGED <<homeOk, home, fs, session, rx, connected, history>>

\* variant of watch_path: a failed read is returned as an error
watch_path_read_checked ==
    \E p \in Paths :
        /\ IF ~exists(p)
           THEN /\ reply' = [cmd |-> "watch_path", arg |-> p, ok |-> FALSE,
                             err |-> FileNotFoundMsg]
                /\ emitted' = <<>>
           ELSE IF read_to_string(p) = <<>>
           THEN /\ reply' = [cmd |-> "watch_path", arg |-> p, ok |-> FALSE,
                             err |-> ReadFailedMsg]
                /\ emitted' = <<LogLocation(p, "command")>>
           ELSE /\ reply' = [cmd |-> "watch_path", arg |-> p, ok |-> TRUE]
                /\ emitted' = <<LogLocation(p, "command"),
                                LogUpdate(read_to_string(p)[1], "command")>>
        /\ step' = "none"
        /\ UNCHANGED <<homeOk, home, fs, session, rx, connected, history>>

\* variant of watch_path: the command retargets the running session
watch_path_retargets ==
    \E p \in Paths :
        /\ IF ~exists(p)
           THEN /\ reply' = [cmd |-> "watch_path", arg |-> p, ok |-> FALSE,
                             err |-> FileNotFoundMsg]
                /\ emitted' = <<>>
                /\ UNCHANGED <<path, last_hash>>
           ELSE /\ reply' = [cmd |-> "watch_path", arg |-> p, ok |-> TRUE]
                /\ emitted' = <<LogLocation(p, "command")>>
                              \o (IF read_to_string(p) # <<>>
                                  THEN <<LogUpdate(read_to_string(p)[1],
                                                   "command")>>
                                  ELSE <<>>)
                /\ path' = IF pc = "recv" THEN p ELSE path
                /\ last_hash' = IF pc = "recv" /\ read_to_string(p) # <<>>
                                THEN hash_content(read_to_string(p)[1])
                                ELSE last_hash
        /\ step' = "none"
        /\ UNCHANGED <<homeOk, home, fs, pc, sleep, last_emit, waited, rx,
                       connected, history>>

watch_path ==
    \E p \in Paths :
        /\ IF ~exists(p)
           THEN /\ reply' = [cmd |-> "watch_path", arg |-> p, ok |-> FALSE,
                             err |-> FileNotFoundMsg]
                /\ emitted' = <<>>
           ELSE /\ reply' = [cmd |-> "watch_path", arg |-> p, ok |-> TRUE]
                /\ emitted' = <<LogLocation(p, "command")>>
                              \o (IF read_to_string(p) # <<>>
                                  THEN <<LogUpdate(read_to_string(p)[1],
                                                   "command")>>
                                  ELSE <<>>)
        /\ step' = "none"
        /\ UNCHANGED <<homeOk, home, fs, session, rx, connected, history>>

Command ==
    \/ get_log_content
    \/ get_log_location
    \/ get_default_paths
    \/ validate_path
    \/ watch_path

-----------------------------------------------------------------------------
Next ==
    \/ Tick
    \/ FileChange
    \/ Signal
    \/ Disconnect
    \/ SearchRetry
    \/ SearchFound
    \/ InitialRead
    \/ ArmWatch
    \/ RecvMessage
    \/ RecvTimedOut
    \/ RecvDisconnected
    \/ get_log_content
    \/ get_log_location
    \/ get_default_paths
    \/ validate_path
    \/ watch_path

Spec == Init /\ [][Next]_vars

\* the watcher thread is scheduled whenever it can run, and time passes
FairSpec == Spec /\ WF_vars(Watcher) /\ WF_vars(Tick)

\* the search loop of the watcher thread alone, beside the environment and
\* the commands, under the same scheduling
SearchNext ==
    \/ Tick
    \/ FileChange
    \/ SearchRetry
    \/ SearchFound
    \/ get_log_content
    \/ get_log_location
    \/ get_default_paths
    \/ validate_path
    \/ watch_path

SearchSpec ==
    Init /\ [][SearchNext]_vars /\ WF_vars(SearchRetry \/ SearchFound)
         /\ WF_vars(Tick)

\* the path commands alone, for every home directory, beside a filesystem
\* that starts empty and changes freely
PathInit ==
    /\ homeOk \in BOOLEAN
    /\ home \in Homes
    /\ fs = [p \in Paths |-> Absent]
    /\ pc = "search"
    /\ sleep = 0
    /\ path = NoPath
    /\ last_hash = 0
    /\ last_emit = 0
    /\ waited = 0
    /\ rx = <<>>
    /\ connected = TRUE
    /\ emitted = <<>>
    /\ reply = NoReply
    /\ located = FALSE
    /\ delivered = <<>>
    /\ delivery_age = 0
    /\ step = "none"

PathNext ==
    \/ FileChange
    \/ get_log_content
    \/ get_log_location
    \/ get_default_paths
    \/ validate_path

PathSpec == PathInit /\ [][PathNext]_vars

\* contents around the threshold: n bytes, of which the first, the last and
\* those strictly between the two windows are given
text(n, first, middle, last) ==
    [i \in 1..n |-> IF i = 1 THEN first
                    ELSE IF i = n THEN last
                    ELSE IF i <= HashWindow THEN 1
                    ELSE IF i > n - HashWindow THEN 2
                    ELSE middle]

HashTexts ==
    {text(HashThreshold, 1, 1, 2),
     text(HashThreshold + 1, 1, 1, 2), text(HashThreshold + 1, 1, 3, 2),
     text(HashThreshold + 1, 3, 1, 2), text(HashThreshold + 1, 1, 1, 3)}

\* the game rewrites the primary log with a content around the threshold
HashWrite ==
    \E t \in HashTexts :
        /\ fs[PrimaryPath] # TextFile(t)
        /\ fs' = [fs EXCEPT ![PrimaryPath] = TextFile(t)]
        /\ emitted' = <<>>
        /\ reply' = NoReply
        /\ step' = "none"
        /\ UNCHANGED <<homeOk, home, session, rx, connected, history>>

\* the watch loop on a primary log whose contents are around the threshold
HashInit ==
    /\ homeOk = TRUE
    /\ home = UsualHome
    /\ fs \in {[p \in Paths |-> IF p = PrimaryPath THEN TextFile(t)
                                ELSE Absent] : t \in HashTexts}
    /\ pc = "search"
    /\ sleep = 0
    /\ path = NoPath
    /\ last_hash = 0
    /\ last_emit = 0
    /\ waited = 0
    /\ rx = <<>>
    /\ connected = TRUE
    /\ emitted = <<>>
    /\ reply = NoReply
    /\ located = FALSE
    /\ delivered = <<>>
    /\ delivery_age = 0
    /\ step = "none"

HashNext ==
    \/ Tick
    \/ HashWrite
    \/ Signal
    \/ SearchFound
    \/ InitialRead
    \/ ArmWatch
    \/ RecvMessage

HashSpec == HashInit /\ [][HashNext]_vars

TypeOK ==
    /\ pc \in {"search", "read", "arm", "recv", "failed", "aborted"}
    /\ sleep \in 0..RetrySleep
    /\ path \in Paths \cup {NoPath}
    /\ last_hash \in 0..(FingerprintSpace - 1)
    /\ last_emit \in 0..MaxAge
    /\ waited \in 0..RecvTimeout
    /\ Len(rx) <= MaxQueue
    /\ Len(emitted) <= 2
    /\ Len(delivered) <= 1
    /\ delivery_age \in 0..MaxAge

-----------------------------------------------------------------------------
(* Vocabulary of the properties *)

\* positions in emitted' of the loop's notifications of one kind
LoopEvents(es, ev) ==
    {i \in DOMAIN es : es[i].by = "loop" /\ es[i].event = ev}

\* the step hands a log-update of the loop to the sink
EmitsLoopUpdate == LoopEvents(emitted', "log-update") # {}

\* the step emits nothing on behalf of the loop
LoopSilent == \A i \in DOMAIN emitted' : emitted'[i].by # "loop"

\* the step is one of the watcher thread
WatcherStep == step' # "none"

\* the loop takes a signal naming latest.log out of the channel
MatchingSignalHandled ==
    /\ pc = "recv"
    /\ rx # <<>>
    /\ Head(rx) = "log"
    /\ rx' = Tail(rx)

\* the loop takes a message, of whichever kind, out of the channel
SignalHandled ==
    /\ pc = "recv"
    /\ rx # <<>>
    /\ rx' = Tail(rx)

\* the loop's wait on the empty, connected channel runs out
TimeoutHandled ==
    /\ pc = "recv"
    /\ rx = <<>>
    /\ connected
    /\ WatcherStep

\* the watched file can be read and its fingerprint is not last_hash
FileDiffers ==
    /\ path \in Paths
    /\ fs[path].k = "text"
    /\ hash_content(fs[path].text) # last_hash

\* the watched file can be read and its fingerprint is last_hash
FileSame ==
    /\ path \in Paths
    /\ fs[path].k = "text"
    /\ hash_content(fs[path].text) = last_hash

\* the step emits exactly the full content of the watched file
EmitsFile == emitted' = <<LogUpdate(fs[path].text, "loop")>>

\* a candidate path exists
AnyCandidate == homeOk /\ \E p \in Paths : fs[p].k # "absent"

-----------------------------------------------------------------------------
(* The claims *)

\* C1: two log-updates of the watch loop, the initial one included, are at
\* least Debounce seconds apart: a step in which the loop emits a log-update
\* after an earlier one finds that earlier one at least 2 seconds old, so a
\* matching signal handled less than 2 seconds after an emission produces no
\* log-update whatever the file holds.
C1_DebounceSeparation ==
    [][(EmitsLoopUpdate /\ delivered # <<>>) => delivery_age >= Debounce]_vars

C1_Witness ==
    /\ step = "next update"
    /\ delivered # <<>>
    /\ emitted = <<LogUpdate(delivered[1], "loop")>>

\* C2 as stated: a matching signal is swallowed only when less than 2
\* seconds have passed since the loop's last actual log-update; handled 2
\* seconds or more after it, or when there was none, a readable file with a
\* new fingerprint is emitted.
C2_SwallowedOnlyAfterEmission ==
    [][(MatchingSignalHandled /\ FileDiffers /\ emitted' = <<>>)
         => (delivered # <<>> /\ delivery_age < Debounce)]_vars

\* C2 amended: the window is counted from last_emit, which is set when the
\* steady loop is entered (whether or not the initial read emitted) and at
\* every later emission.  A matching signal is swallowed exactly when
\* last_emit is less than 2 seconds old; otherwise the file is read and, if
\* the read succeeds with a fingerprint other than last_hash, its full
\* content is emitted and last_hash and last_emit are updated.
C2_DebounceFromLastEmit ==
    [][MatchingSignalHandled =>
         /\ (last_emit >= Debounce /\ FileDiffers)
              => /\ EmitsFile
                 /\ last_hash' = hash_content(fs[path].text)
                 /\ last_emit' = 0
         /\ (last_emit < Debounce) => emitted' = <<>>]_vars

C2_Witness ==
    /\ step = "first update"
    /\ last_emit = 0
    /\ emitted = <<LogUpdate(fs[path].text, "loop")>>

\* C3: the loop never emits two consecutive log-updates whose contents have
\* the same fingerprint, and a matching signal handled outside the debounce
\* window whose read yields the fingerprint last_hash emits nothing and
\* leaves last_hash and last_emit as they were.
C3_Dedup ==
    [][/\ (EmitsLoopUpdate /\ delivered # <<>>)
            => \A i \in LoopEvents(emitted', "log-update") :
                   hash_content(emitted'[i].text) # hash_content(delivered[1])
       /\ (MatchingSignalHandled /\ last_emit >= Debounce /\ FileSame)
            => /\ emitted' = <<>>
               /\ UNCHANGED <<last_hash, last_emit>>]_vars

C3_Witness ==
    /\ step = "unchanged"
    /\ delivered # <<>>
    /\ last_emit >= Debounce
    /\ FileSame

\* C4: last_hash is the fingerprint of the content of the latest log-update
\* the loop emitted, and 0 while it has emitted none.
C4_FingerprintOfDelivered ==
    last_hash = IF delivered = <<>> THEN 0 ELSE hash_content(delivered[1])

C4_Witness ==
    /\ step = "swallowed"
    /\ delivered # <<>>
    /\ FileDiffers

\* C5: while no candidate exists every resolution attempt keeps the loop in
\* Searching and emits exactly one log-error; in Searching the loop emits
\* nothing else; the first attempt made while a candidate exists leaves
\* Searching; and if from some point on a candidate always exists, the loop
\* eventually leaves Searching.
C5_RetryUntilFound ==
    /\ [][/\ (pc = "search" /\ WatcherStep /\ ~AnyCandidate)
               => /\ pc' = "search"
                  /\ emitted' = <<LogError(NotFoundMsg, "loop")>>
          /\ (pc = "search" /\ WatcherStep /\ AnyCandidate)
               => pc' = "read"
          /\ (pc' = "search")
               => /\ LoopEvents(emitted', "log-location") = {}
                  /\ LoopEvents(emitted', "log-update") = {}]_vars
    /\ (<>[]AnyCandidate) => <>(pc # "search")

C5_Witness ==
    /\ step = "retry"
    /\ pc = "search"
    /\ sleep = RetrySleep
    /\ emitted = <<LogError(NotFoundMsg, "loop")>>

C7_ArmFailureFatal ==
    [][/\ (pc = "arm" /\ step' \in {"new failed", "watch failed"})
            => /\ pc' = "failed"
               /\ emitted' = <<LogError(IF step' = "new failed"
                                        THEN WatcherErrorMsg
                                        ELSE WatchErrorMsg, "loop")>>
       /\ (pc # "failed" /\ pc' = "failed")
            => (pc = "arm" /\ Len(emitted') = 1)
       /\ (pc = "failed")
            => /\ pc' = "failed"
               /\ LoopSilent
               /\ UNCHANGED <<path, last_hash, last_emit>>]_vars

C7_Witness ==
    /\ pc = "failed"
    /\ emitted = <<LogError(WatchErrorMsg, "loop")>>

\* C8: the loop moves to Aborted only when the channel is disconnected and
\* drained, and that step emits nothing; a timeout or an error signal on a
\* connected channel keeps it in Watching; in Aborted it stays and emits
\* nothing.
C8_SilentAbort ==
    [][/\ (pc # "aborted" /\ pc' = "aborted")
            => (pc = "recv" /\ ~connected /\ rx = <<>> /\ emitted' = <<>>)
       /\ (pc = "recv" /\ WatcherStep /\ ~connected /\ rx = <<>>)
            => pc' = "aborted"
       /\ (pc = "recv" /\ (connected \/ rx # <<>>))
            => pc' = "recv"
       /\ (pc = "aborted")
            => /\ pc' = "aborted"
               /\ LoopSilent
               /\ UNCHANGED <<path, last_hash, last_emit>>]_vars

C8_Witness ==
    /\ pc = "aborted"
    /\ step = "disconnected"
    /\ emitted = <<>>

\* C9: a step of a command leaves the session of the watch loop, the
\* channel, the filesystem and the record of what the loop has emitted
\* unchanged, and every notification it emits is the command's own.
C9_CommandsDoNotInterfere ==
    [][(reply'.cmd # "none")
         => /\ UNCHANGED <<session, history, rx, connected, fs, homeOk>>
            /\ LoopSilent]_vars

C9_Witness ==
    /\ reply.cmd = "watch_path"
    /\ pc = "recv"
    /\ delivered # <<>>
    /\ Len(emitted) = 2

\* C10: watch_path on a missing path returns an error and emits nothing; on
\* an existing path it returns success and emits log-location for that path,
\* followed by a log-update with the content exactly when the read succeeds;
\* it never emits log-error.
C10_WatchPath ==
    [][(reply'.cmd = "watch_path") =>
         LET p == reply'.arg
         IN  /\ (fs[p].k = "absent")
                  => (~reply'.ok /\ emitted' = <<>>)
             /\ (fs[p].k = "unreadable")
                  => (reply'.ok /\ emitted' = <<LogLocation(p, "command")>>)
             /\ (fs[p].k = "text")
                  => /\ reply'.ok
                     /\ emitted' = <<LogLocation(p, "command"),
                                     LogUpdate(fs[p].text, "command")>>]_vars

C10_Witness ==
    /\ reply.cmd = "watch_path"
    /\ reply.ok
    /\ fs[reply.arg] = Unreadable
    /\ emitted = <<LogLocation(reply.arg, "command")>>

\* the first candidate that exists, read off the filesystem
FirstExisting ==
    IF ~homeOk THEN <<>>
    ELSE IF fs[PrimaryPath].k # "absent" THEN <<PrimaryPath>>
    ELSE IF fs[AlternatePath].k # "absent" THEN <<AlternatePath>>
    ELSE <<>>

\* C11: for every combination of existing and missing candidate files,
\* get_log_path (as get_log_location returns it) is the first existing one
\* of primary, alternate, and nothing when none exists or the home lookup
\* fails; get_default_paths returns, whatever exists, two texts that are
\* the same paths as the candidates of get_log_path in the same order, and
\* the empty list when the lookup fails.
C11_CandidateOrder ==
    [][/\ (reply'.cmd = "get_log_location")
            => reply' = IF FirstExisting = <<>>
                        THEN [cmd |-> "get_log_location", ok |-> FALSE,
                              err |-> CommandNotFoundMsg]
                        ELSE [cmd |-> "get_log_location", ok |-> TRUE,
                              path |-> FirstExisting[1]]
       /\ (reply'.cmd = "get_default_paths")
            => /\ Len(reply'.paths) = Len(candidate_paths)
               /\ \A i \in DOMAIN candidate_paths :
                      /\ components(reply'.paths[i])
                           = components(candidate_paths[i])
                      /\ file_at(candidate_paths[i]) = candidates[i]
               /\ homeOk => /\ file_at(reply'.paths[1]) = PrimaryPath
                            /\ file_at(reply'.paths[2]) = AlternatePath
               /\ ~homeOk => reply'.paths = <<>>]_vars

C11_Witness ==
    /\ reply.cmd = "get_log_location"
    /\ reply.ok
    /\ reply.path = PrimaryPath
    /\ fs[AlternatePath].k # "absent"
    /\ home = <<Sep>>

\* the two windows and the length of a content
Sampled(s) ==
    <<Len(s), SubSeq(s, 1, HashWindow),
      SubSeq(s, Len(s) - HashWindow + 1, Len(s))>>

\* the contents the loop has fingerprinted or is about to
InPlay ==
    {fs[p].text : p \in {q \in Paths : fs[q].k = "text"}}
        \cup {delivered[i] : i \in DOMAIN delivered}

\* C12: two contents longer than 1024 bytes with the same length, the same
\* first 512 and the same last 512 bytes have the same fingerprint, whatever
\* lies between; the words hashed for such a content are its length and
\* those two windows, and for a content of at most 1024 bytes, 1024
\* included, its length and all of its bytes.
C12_HashSample ==
    /\ \A s \in InPlay, t \in InPlay :
           (Len(s) > HashThreshold /\ Sampled(s) = Sampled(t))
             => hash_content(s) = hash_content(t)
    /\ \A s \in InPlay :
           IF Len(s) > HashThreshold
           THEN written(s) = <<Len(s), HashWindow>> \o Sampled(s)[2]
                               \o <<HashWindow>> \o Sampled(s)[3]
           ELSE written(s) = <<Len(s), Len(s)>> \o s
    /\ (delivered # <<>> /\ pc = "recv")
         => last_hash = finish(written(delivered[1]))

C12_Witness ==
    /\ step = "unchanged"
    /\ delivered # <<>>
    /\ Len(delivered[1]) > HashThreshold
    /\ fs[path].k = "text"
    /\ fs[path].text # delivered[1]
    /\ Sampled(fs[path].text) = Sampled(delivered[1])

\* C13: the initial read, made once on the way from Searching to Watching,
\* starts from last_hash = 0; if it succeeds the fingerprint of the content
\* is stored and a log-update with the content is emitted whatever that
\* fingerprint is; if it fails the loop emits nothing, neither log-update
\* nor log-error, last_hash stays 0; in both cases the loop goes on to arm
\* the watch.
C13_InitialRead ==
    [][(pc = "read" /\ pc' # "read")
        => /\ last_hash = 0
           /\ pc' = "arm"
           /\ path' = path
           /\ IF fs[path].k = "text"
              THEN /\ last_hash' = hash_content(fs[path].text)
                   /\ emitted' = <<LogUpdate(fs[path].text, "loop")>>
              ELSE /\ last_hash' = 0
                   /\ emitted' = <<>>]_vars

C13_Witness ==
    /\ step = "initial update"
    /\ pc = "arm"
    /\ last_hash = 0
    /\ emitted = <<LogUpdate(fs[path].text, "loop")>>

\* C14: in Watching a timeout of the wait, an error signal, a signal that
\* does not name latest.log, and a signal naming latest.log that is handled
\* less than Debounce seconds after the last emission change nothing:
\* nothing is emitted, last_hash and the time of the last emission keep their
\* values, and the loop stays in Watching on the same path.
C14_NoOps ==
    [][(\/ TimeoutHandled
        \/ SignalHandled /\ Head(rx) # "log"
        \/ SignalHandled /\ last_emit < Debounce)
        => /\ emitted' = <<>>
           /\ pc' = "recv"
           /\ UNCHANGED <<last_hash, last_emit, path, delivered>>]_vars

C14_Witness ==
    /\ step = "other signal"
    /\ pc = "recv"
    /\ FileDiffers
    /\ last_emit >= Debounce

\* C15: in Watching a signal naming latest.log that is handled with the
\* debounce window over while the file cannot be read changes nothing: no
\* log-update and no log-error, last_hash and the time of the last emission
\* unchanged, so that the next such signal is read at once; the loop emits a
\* log-error only while Searching or when arming the watch fails.
C15_SilentReadFailure ==
    [][/\ (MatchingSignalHandled /\ last_emit >= Debounce
                                 /\ fs[path].k # "text")
          => /\ emitted' = <<>>
             /\ pc' = "recv"
             /\ UNCHANGED <<last_hash, last_emit, path, delivered>>
       /\ (LoopEvents(emitted', "log-error") # {})
          => \/ pc = "search" /\ pc' = "search"
             \/ pc = "arm" /\ pc' = "failed"]_vars

C15_Witness ==
    /\ step = "read failed"
    /\ pc = "recv"
    /\ fs[path].k # "text"
    /\ last_emit >= Debounce

\* the content last emitted by the loop is not the content of the file
Stale ==
    /\ delivered # <<>>
    /\ fs[path].k = "text"
    /\ fs[path].text # delivered[1]

\* C16: delivery of a change is not guaranteed. A signal naming latest.log
\* that is handled inside the debounce window is taken out of the channel and
\* leaves no trace, and in Watching the delivered content changes only in a
\* step that handles such a signal with the window over; so from a state
\* with a stale content and no such signal to come, every continuation
\* keeps the content stale.
C16_NoEventualDelivery ==
    [][/\ (MatchingSignalHandled /\ last_emit < Debounce)
          => /\ rx' = Tail(rx)
             /\ UNCHANGED <<pc, path, last_hash, last_emit, fs, delivered>>
       /\ (pc = "recv" /\ (delivered' # delivered \/ EmitsLoopUpdate))
          => /\ MatchingSignalHandled
             /\ last_emit >= Debounce
       /\ (Stale /\ ~MatchingSignalHandled /\ fs' = fs) => Stale']_vars

C16_Witness ==
    /\ step = "swallowed"
    /\ Stale
    /\ FileDiffers
    /\ rx = <<>>
    /\ connected

\* C17: the path is resolved once. After the loop has left Searching it
\* never is in Searching again, the active path never changes, the loop
\* announces no further log-location, the one it announced on leaving
\* Searching names the active path, and every content the steady loop emits
\* is the content of the file at that path, also when that file has been
\* removed meanwhile or a candidate of higher priority has appeared.
C17_ResolvedOnce ==
    [][/\ (pc # "search")
          => /\ pc' # "search"
             /\ path' = path
             /\ LoopEvents(emitted', "log-location") = {}
       /\ (pc = "search" /\ pc' # "search")
          => /\ path' \in Paths
             /\ emitted' = <<LogLocation(path', "loop")>>
       /\ (pc = "recv" /\ pc' = "recv" /\ EmitsLoopUpdate)
          => /\ fs[path].k = "text"
             /\ EmitsFile]_vars

C17_Witness ==
    /\ pc = "recv"
    /\ path = AlternatePath
    /\ step = "next update"
    /\ fs[PrimaryPath].k = "text"
    /\ fs[PrimaryPath].text # fs[AlternatePath].text
    /\ emitted = <<LogUpdate(fs[AlternatePath].text, "loop")>>

\* C18: the initial 0 of last_hash is compared like a fingerprint. When the
\* initial read failed and the loop has delivered nothing, last_hash is 0,
\* and a signal naming latest.log handled with the debounce window over and
\* the file readable makes the loop emit the content if and only if the
\* fingerprint of the content is not 0; a content of fingerprint 0 is
\* suppressed and the loop still has delivered nothing.
C18_ZeroIsAFingerprint ==
    [][(MatchingSignalHandled /\ delivered = <<>> /\ last_emit >= Debounce
                              /\ fs[path].k = "text")
        => /\ last_hash = 0
           /\ EmitsFile <=> hash_content(fs[path].text) # 0
           /\ (hash_content(fs[path].text) = 0)
                => /\ emitted' = <<>>
                   /\ delivered' = <<>>
                   /\ last_hash' = 0]_vars

C18_Witness ==
    /\ step = "unchanged"
    /\ pc = "recv"
    /\ delivered = <<>>
    /\ fs[path].k = "text"
    /\ hash_content(fs[path].text) = 0

====
